---------------------------- MODULE Spec2Model ----------------------------
(***************************************************************************)
(* Autonomax (src/model.py): a mixed-integer model of a two-tier network.  *)
(* Autonomax.__init__ builds decision variables and linear constraints,    *)
(* the solver returns one assignment that satisfies them, and edge_info()  *)
(* and city_info() read the solved values.                                 *)
(*                                                                         *)
(* The solver is a black box that may return ANY satisfying assignment, so *)
(* it is modelled as a sequence of nondeterministic steps, each assigning  *)
(* one group of variables under the constraints of __init__ whose          *)
(* variables are then all assigned.  A state with pc = "solved" holds a    *)
(* complete satisfying assignment, and every satisfying assignment is      *)
(* reached by some run.                                                    *)
(*                                                                         *)
(* Real quantities (demand, flow) are integer numbers of ticks of 1e-10;   *)
(* binary variables are 0 or 1.  Distances are whole numbers, and a cost   *)
(* is a pair <<whole, ticks>> that stands for whole + ticks * 1e-10.       *)
(***************************************************************************)
EXTENDS Integers, Sequences, FiniteSets, TLC

\* ------------------------------------------------------------------ bounds
\* The largest number of cities of a Config of SpecCore.
MaxCities == 5
\* The largest demand of a city, in ticks, of a Config of Spec.
MaxDemand == 6
\* The largest city index handed to normalize in SpecCalls.
MaxIndex == 7
\* The largest number of items handed to non_zero in SpecCalls.
MaxItems == 3
\* The largest distance of a Config of SpecCost is 10 * MaxRoot * MaxRoot.
MaxRoot == 2
\* The largest demand of a city, in ticks, of a Config of SpecCost.
MaxCostDemand == 2

\* -------------------------------------------------------- program constants
\* The zero tolerance 1e-9 of non_zero, in ticks of 1e-10.
Tol == 10

\* The pool the city names of a Config are taken from.
CityNames == <<"A", "B", "C", "D", "E", "F", "G", "H">>

VARIABLES
    \* Config
    cities,             \* config.cities: the list of city names
    demand,             \* config.demand: city index -> ticks
    distances,          \* config.distances: edge -> distance
    core_city_count,    \* config.core_city_count
    core_net_is_cycle,  \* config.core_net_is_cycle
    \* Autonomax
    EDGES,              \* self.EDGES: list(combinations(CITIES, r=2))
    \* the solver's assignment
    is_control_center,  \* city -> {0,1}
    is_core_edge,       \* edge -> {0,1}
    is_core_city,       \* city -> {0,1}
    is_connected_step,  \* <<city, t>> -> {0,1}, t in 0..T-1
    is_connectable_step,\* edge -> {0,1}: the slice [i, j, t] of time step t
    t,                  \* the time step whose variables are assigned
    flow,               \* edge -> ticks
    abs_flow,           \* edge -> ticks
    next_edge,          \* position in EDGES of the next flow variable
    is_sub_edge,        \* edge -> {0,1}
    edge_cost,          \* edge -> cost
    pc,                 \* which group of variables is assigned next
    \* the extractor's output
    reported,           \* the extractor methods that have returned
    edge_rows,          \* the list edge_info() returned
    city_rows,          \* the list city_info() returned
    \* one call of a module-level function: its name, arguments and result
    call

vars == <<cities, demand, distances, core_city_count, core_net_is_cycle,
          EDGES, is_control_center, is_core_edge, is_core_city,
          is_connected_step, is_connectable_step, t, flow, abs_flow,
          next_edge, is_sub_edge, edge_cost, pc, reported, edge_rows,
          city_rows, call>>

config_vars == <<cities, demand, distances, core_city_count,
                 core_net_is_cycle, EDGES>>
core_vars == <<is_control_center, is_core_edge, is_core_city>>
reach_vars == <<is_connected_step, is_connectable_step, t>>
flow_vars == <<flow, abs_flow, next_edge, is_sub_edge, edge_cost>>
out_vars == <<reported, edge_rows, city_rows>>

\* ---------------------------------------------------------------- helpers
RECURSIVE sum(_, _)
\* Python's sum(f[x] for x in S).
sum(f, S) ==
    IF S = {} THEN 0
    ELSE LET x == CHOOSE y \in S : TRUE IN f[x] + sum(f, S \ {x})

\* sum(f[x] for x in S) of binary variables: the number of ones.
sum01(f, S) == Cardinality({x \in S : f[x] = 1})

abs(v) == IF v < 0 THEN -v ELSE v

\* The AssertionError a failed assert raises: a value that is no pair.
AssertionError == <<>>

normalize_swapped(i, j) ==
    IF i = j THEN AssertionError ELSE IF i < j THEN <<j, i>> ELSE <<i, j>>

normalize(i, j) ==
    IF i = j THEN AssertionError ELSE IF i < j THEN <<i, j>> ELSE <<j, i>>

\* ------------------------------------------------- derived sets (__init__)
NC == core_city_count
Z == IF core_net_is_cycle THEN 1 ELSE 0
C == Len(cities)
CITIES == 0 .. C - 1
\* list(combinations(range(n), r=2)): the pairs i < j in lexicographic order.
combinations(n) ==
    SelectSeq([k \in 1 .. n * n |-> <<(k - 1) \div n, (k - 1) % n>>],
              LAMBDA e : e[1] < e[2])
\* The keys of the variables added over EDGES.
EdgeSet == DOMAIN is_core_edge
T == NC

\* A GRB.BINARY variable for every key of D.
Binary(D) == [D -> {0, 1}]
\* The binary assignment over D that is 1 exactly on S.
Indicator(S, D) == [d \in D |-> IF d \in S THEN 1 ELSE 0]
\* sum(is_core_edge[normalize(i, j)] for j in CITIES if j != i)
CoreDegree(ce, i) ==
    Cardinality({j \in CITIES \ {i} : ce[normalize(i, j)] = 1})

\* ------------------------------------------------ constraints (__init__)
\* There is exactly one control center.
control_center_unique(cc) == sum01(cc, CITIES) = 1

\* 'control-center-directly-connected'
control_center_directly_connected(cs, cc) ==
    \A i \in CITIES : cs[i] >= cc[i]

core_city_ub_mut(cs, ce) ==
    \A i \in CITIES : cs[i] <= CoreDegree(ce, i) + 1

\* 'core-city-ub'
core_city_ub(cs, ce) ==
    \A i \in CITIES : cs[i] <= CoreDegree(ce, i)

\* A cycle has |V| = |E|. A path has |V| = |E| + 1.
vertex_edge_relation(cs, ce) ==
    sum01(cs, CITIES) = sum01(ce, EdgeSet) + 1 - Z

disallow_core_tree_mut(cs, ce) ==
    \A i \in CITIES : 3 * cs[i] >= CoreDegree(ce, i)

\* 'disallow-core-tree'
disallow_core_tree(cs, ce) ==
    \A i \in CITIES : 2 * cs[i] >= CoreDegree(ce, i)

\* The assignments of is_core_edge that 'disallow-core-tree' leaves open
\* once is_core_city = cs.  The constraint bounds a sum of non-negative
\* terms from above, so an edge that violates it alone violates it in every
\* assignment: only the other edges can be 1.
CoreEdgeAssignments(cs) ==
    {Indicator(S, EdgeSet) :
        S \in SUBSET {e \in EdgeSet :
                        disallow_core_tree(cs, Indicator({e}, EdgeSet))}}

\* 'exactly-nc-core-cities'
exactly_nc_core_cities(cs) == sum01(cs, CITIES) = NC

\* 'control-center-is-connected'
control_center_is_connected(conn, cc) ==
    \A i \in CITIES : conn[<<i, 0>>] = cc[i]

is_connectable_mut(x, conn, ce, tt) ==
    \A e \in EdgeSet :
        x[e] <= conn[<<e[1], tt - 1>>] + conn[<<e[2], tt - 1>>] + ce[e]

\* 'is-connectable', for the edges at time step tt; x is the slice
\* is_connectable_step[i, j, tt].
is_connectable(x, conn, ce, tt) ==
    \A e \in EdgeSet :
        2 * x[e] <= conn[<<e[1], tt - 1>>] + conn[<<e[2], tt - 1>>] + ce[e]

\* 'is-connected-timestep', for the cities at time step tt; c is
\* is_connected_step[i, tt].
is_connected_timestep(c, x) ==
    \A i \in CITIES :
        c[i] <= Cardinality({j \in CITIES \ {i} : x[normalize(i, j)] = 1})

\* sum(is_connected_step[i, t] for t in range(T))
ConnectedSteps(conn, i) ==
    Cardinality({tt \in 0 .. T - 1 : conn[<<i, tt>>] = 1})

connected_graph_mut(conn, cs) ==
    \A i \in CITIES : ConnectedSteps(conn, i) <= cs[i]

\* 'connected-graph'
connected_graph(conn, cs) ==
    \A i \in CITIES : ConnectedSteps(conn, i) = cs[i]

\* What 'connected-graph' demands of the time steps assigned so far: the
\* steps still to come add non-negative terms to its sum.
connected_graph_so_far(conn, cs) ==
    \A i \in CITIES : ConnectedSteps(conn, i) <= cs[i]

\* conn with the variables of time step tt set to c.
WithStep(conn, tt, c) ==
    [k \in DOMAIN conn |-> IF k[2] = tt THEN c[k[1]] ELSE conn[k]]

\* The assignments of the slice is_connectable_step[i, j, tt] that
\* 'is-connectable' allows: it bounds every variable of the slice alone.
ConnectableAssignments(conn, ce, tt) ==
    {Indicator(S, EdgeSet) :
        S \in SUBSET {e \in EdgeSet :
                        is_connectable(Indicator({e}, EdgeSet), conn, ce, tt)}}

\* The assignments of is_connected_step[i, tt] that 'is-connected-timestep'
\* allows under the slice x: it bounds every variable of the step alone.
ConnectedAssignments(x) ==
    {Indicator(S, CITIES) :
        S \in SUBSET {i \in CITIES :
                        is_connected_timestep(Indicator({i}, CITIES), x)}}


\* ------------------------------------------------------------------ flow
\* sum(demand)
TotalDemand == sum(demand, CITIES)
\* min(demand)
MinDemand == CHOOSE d \in {demand[i] : i \in CITIES} :
                \A i \in CITIES : d <= demand[i]

\* The values of a variable added with lb=-sum(demand), ub=sum(demand).
FlowValues == -TotalDemand .. TotalDemand
\* The values of a variable added with ub=sum(demand) (and the default lb=0).
AbsFlowValues == 0 .. TotalDemand

\* abs_flow[e] == gp.abs_(flow[e])
abs_flow_is_abs(af, fl, e) == af[e] = abs(fl[e])

\* The flow of edge {i, j} as city i counts it: flow * (1 if i > j else -1).
SignedFlow(fl, i, j) == fl[normalize(i, j)] * (IF i > j THEN 1 ELSE -1)

conservation_of_flow_mut(fl, cc, i) ==
    TotalDemand * cc[i] =
        demand[i] + sum([j \in CITIES \ {i} |-> SignedFlow(fl, j, i)],
                        CITIES \ {i})

\* The conservation of flow at city i (model.py lines 164-167).
conservation_of_flow(fl, cc, i) ==
    TotalDemand * cc[i] =
        demand[i] + sum([j \in CITIES \ {i} |-> SignedFlow(fl, i, j)],
                        CITIES \ {i})

\* Every flow variable at city i is among the first n of EDGES.
FlowsAssigned(i, n) ==
    \A k \in n + 1 .. Len(EDGES) : i \notin {EDGES[k][1], EDGES[k][2]}

\* 'force-is-edge-up-if-flow'
force_is_edge_up_if_flow(sub, ce, af) ==
    \A e \in EdgeSet : TotalDemand * (sub[e] + ce[e]) >= af[e]

\* 'force-is-edge-down-if-no-flow'
force_is_edge_down_if_no_flow(sub, af) ==
    \A e \in EdgeSet : MinDemand * sub[e] <= af[e]

\* 'disallow-is-both-sub-and-core'
disallow_is_both_sub_and_core(sub, ce) ==
    \A e \in EdgeSet : ce[e] + sub[e] <= 1

\* ------------------------------------------------------------------ cost
\* A cost is a pair <<whole, ticks>> with fewer than 10^10 ticks, so costs
\* add by components and compare first by whole, then by ticks.
cost_add(a, b) == <<a[1] + b[1], a[2] + b[2]>>
cost_ge(a, b) == a[1] > b[1] \/ (a[1] = b[1] /\ a[2] >= b[2])
ZeroCost == <<0, 0>>

\* The square root of a perfect square.
sqrt(x) == CHOOSE r \in 0 .. x : r * r = x

\* (0.1 * D[e])**1.5, for a distance that is ten times a perfect square.
unit_cost(e) ==
    LET x == distances[e] \div 10 IN x * sqrt(x)

M_mut(e) == <<10, unit_cost(e)>>

\* def M(e): return 10 + (0.1 * D[e])**1.5 * sum(demand)
M(e) == <<10, unit_cost(e) * TotalDemand>>

\* 10 * is_sub_edge[e] + (0.1 * D[e])**1.5 * abs_flow[e]
edge_cost_rhs(s, a, e) == <<10 * s, unit_cost(e) * a>>

\* 'edge-cost-lb' for edge e, with edge_cost[e] = c, is_core_edge[e] = ce,
\* is_sub_edge[e] = s and abs_flow[e] = a.
edge_cost_lb(c, ce, s, a, e) ==
    cost_ge(cost_add(c, IF ce = 1 THEN M(e) ELSE ZeroCost),
            edge_cost_rhs(s, a, e))

\* The term of edge e in the objective:
\* edge_cost[e] + 10 * D[e] * is_core_edge[e].
objective_term(c, ce, e) == cost_add(c, <<10 * distances[e] * ce, 0>>)

\* The values 10 * s + (0.1 * D[e])**1.5 * a that the right-hand side of
\* 'edge-cost-lb' takes over is_sub_edge[e] in {0, 1} and abs_flow[e]
\* within its bounds.
RhsValues(e) == {edge_cost_rhs(s, a, e) : s \in {0, 1}, a \in AbsFlowValues}

\* The values of edge_cost[e], added with the default lb=0 and no ub: zero,
\* M(e), and the right-hand side with no flow, with the solved flow and
\* with the largest flow.
EdgeCostValues(e) ==
    {ZeroCost, M(e)}
        \cup {edge_cost_rhs(s, a, e) :
                s \in {0, 1}, a \in {0, abs_flow[e], TotalDemand}}

\* The least value of edge_cost[e] that 'edge-cost-lb' allows beside the
\* solved is_core_edge, is_sub_edge and abs_flow: the value of edge_cost[e]
\* in an assignment that minimises the objective.
LeastEdgeCost(e) ==
    LET allowed == {c \in EdgeCostValues(e) :
                        edge_cost_lb(c, is_core_edge[e], is_sub_edge[e],
                                     abs_flow[e], e)}
    IN CHOOSE c \in allowed : \A d \in allowed : cost_ge(d, c)

\* 'edge-cost-lb' for every edge, with edge_cost = ec.
edge_cost_lbs(ec) ==
    \A e \in EdgeSet :
        edge_cost_lb(ec[e], is_core_edge[e], is_sub_edge[e], abs_flow[e], e)

\* ------------------------------------------------------------- extractor
\* A solved value v.x is <<whole, ticks>>: whole + ticks * 1e-10, the two of
\* one sign.  A binary variable is whole, a flow is a number of ticks.
XBinary(b) == <<b, 0>>
XReal(v) == <<0, v>>
\* abs(v.x)
abs_x(x) == <<abs(x[1]), abs(x[2])>>
gt_tol_mut(x) == x[1] >= 1 \/ x[2] >= Tol
\* x > 1e-9, for x >= 0
gt_tol(x) == x[1] >= 1 \/ x[2] > Tol

\* items.items() of the binary variables var added over the list keys.
binary_items(var, keys) ==
    [k \in 1 .. Len(keys) |-> <<keys[k], XBinary(var[keys[k]])>>]
\* items.items() of the real variables var added over the list keys.
real_items(var, keys) ==
    [k \in 1 .. Len(keys) |-> <<keys[k], XReal(var[keys[k]])>>]

\* non_zero(items), as the list of the keys it yields.
non_zero(items) ==
    LET kept == SelectSeq(items, LAMBDA it : gt_tol(abs_x(it[2])))
    IN [k \in 1 .. Len(kept) |-> kept[k][1]]

\* list(range(C))
CityList == [k \in 1 .. C |-> k - 1]
\* The elements of a list.
Elements(list) == {list[k] : k \in 1 .. Len(list)}

set_mut(list) == list

\* set(list), as the list a loop over it goes through.  Python leaves the
\* order open; this is the order of EDGES.
set(list) == SelectSeq(EDGES, LAMBDA e : e \in Elements(list))

\* edge_info() (model.py lines 223-235).
edge_info ==
    LET core == non_zero(binary_items(is_core_edge, EDGES))
        nz == non_zero(real_items(flow, EDGES))
        utilized == [k \in 1 .. Len(nz) |-> normalize(nz[k][1], nz[k][2])]
        keys == set(core \o utilized)
    IN [k \in 1 .. Len(keys) |->
            LET i == keys[k][1]
                j == keys[k][2]
            IN [From |-> cities[i + 1],
                To |-> cities[j + 1],
                Type |-> IF normalize(i, j) \in Elements(core)
                            THEN "CORE" ELSE "SUB",
                Flow |-> flow[<<i, j>>],
                Cost |-> objective_term(edge_cost[normalize(i, j)],
                                        is_core_edge[normalize(i, j)],
                                        <<i, j>>),
                Distance |-> distances[<<i, j>>]]]

IngoingFlow_mut(i) ==
    sum([e \in EdgeSet |->
            abs(flow[e]) * (IF (e[1] = i /\ flow[e] > 0)
                               \/ (e[2] = i /\ flow[e] < 0) THEN 1 ELSE 0)],
        EdgeSet)

\* 'IngoingFlow' of city i (model.py line 248).
IngoingFlow(i) ==
    sum([e \in EdgeSet |->
            abs(flow[e]) * (IF (e[2] = i /\ flow[e] > 0)
                               \/ (e[1] = i /\ flow[e] < 0) THEN 1 ELSE 0)],
        EdgeSet)

\* 'OutgoingFlow' of city i (model.py line 250).
OutgoingFlow(i) ==
    sum([e \in EdgeSet |->
            abs(flow[e]) * (IF (e[1] = i /\ flow[e] > 0)
                               \/ (e[2] = i /\ flow[e] < 0) THEN 1 ELSE 0)],
        EdgeSet)

\* city_info() (model.py lines 237-251).
city_info ==
    LET core_cities == non_zero(binary_items(is_core_city, CityList))
        control_center == non_zero(binary_items(is_control_center, CityList))
    IN [k \in 1 .. C |->
            LET i == CityList[k]
            IN [Index |-> i,
                Name |-> cities[i + 1],
                IsCoreCity |-> i \in Elements(core_cities),
                IsControlCenter |-> i \in Elements(control_center),
                Demand |-> demand[i],
                IngoingFlow |-> IngoingFlow(i),
                OutgoingFlow |-> OutgoingFlow(i)]]

\* ----------------------------------------------------------------- states
\* The state of an Autonomax(config) before the solver has assigned anything.
Unsolved ==
    /\ EDGES = combinations(C)
    /\ is_control_center = [i \in CITIES |-> 0]
    /\ is_core_edge = [e \in {EDGES[k] : k \in 1 .. Len(EDGES)} |-> 0]
    /\ is_core_city = [i \in CITIES |-> 0]
    /\ is_connected_step = [k \in CITIES \X (0 .. T - 1) |-> 0]
    /\ is_connectable_step = is_core_edge
    /\ t = 0
    /\ flow = is_core_edge
    /\ abs_flow = is_core_edge
    /\ next_edge = 1
    /\ is_sub_edge = is_core_edge
    /\ edge_cost = [e \in DOMAIN is_core_edge |-> ZeroCost]
    /\ pc = "core"
    /\ reported = {}
    /\ edge_rows = <<>>
    /\ city_rows = <<>>

\* No call of a module-level function.
NoCall == [fn |-> "", args |-> <<>>, returned |-> FALSE, result |-> <<>>]

\* Every Config of up to MaxCities cities; the topology needs no demand.
InitCore ==
    /\ cities \in {SubSeq(CityNames, 1, n) : n \in 1 .. MaxCities}
    /\ demand = [i \in CITIES |-> 0]
    /\ core_city_count \in 1 .. C
    /\ core_net_is_cycle \in BOOLEAN
    /\ Unsolved
    /\ distances = [e \in EdgeSet |-> 0]
    /\ call = NoCall

\* The demands of a Config of Spec, in ticks: signed, zero among them.
DemandValues == {-MaxDemand, 0, MaxDemand}

\* Every Config of two or three cities with demands of DemandValues, the
\* cities 10 apart.
Init ==
    /\ cities \in {SubSeq(CityNames, 1, n) : n \in {2, 3}}
    /\ demand \in [CITIES -> DemandValues]
    /\ core_city_count \in 1 .. C
    /\ core_net_is_cycle \in BOOLEAN
    /\ Unsolved
    /\ distances = [e \in EdgeSet |-> 10]
    /\ call = NoCall

\* ---------------------------------------------------------------- solver
\* The core: is_core_city and is_core_edge (model.py lines 52-94).
SolveCore ==
    /\ pc = "core"
    /\ \E cs \in Binary(CITIES) :
        /\ exactly_nc_core_cities(cs)
        /\ \E ce \in CoreEdgeAssignments(cs) :
            /\ vertex_edge_relation(cs, ce)
            /\ core_city_ub(cs, ce)
            /\ disallow_core_tree(cs, ce)
            /\ is_core_city' = cs
            /\ is_core_edge' = ce
    /\ pc' = "control_center"
    /\ UNCHANGED <<config_vars, is_control_center, reach_vars, flow_vars,
                   out_vars, call>>

\* The control center (model.py lines 47-50, 59-63).
SolveControlCenter ==
    /\ pc = "control_center"
    /\ \E cc \in Binary(CITIES) :
        /\ control_center_unique(cc)
        /\ control_center_directly_connected(is_core_city, cc)
        /\ is_control_center' = cc
    /\ pc' = "step"
    /\ UNCHANGED <<config_vars, is_core_edge, is_core_city, reach_vars,
                   flow_vars, out_vars, call>>

\* Time step 0 of is_connected_step (model.py lines 105-109).
SolveStepZero ==
    /\ pc = "step"
    /\ t = 0
    /\ \E c \in Binary(CITIES) :
        /\ control_center_is_connected(WithStep(is_connected_step, 0, c),
                                       is_control_center)
        /\ is_connected_step' = WithStep(is_connected_step, 0, c)
    /\ pc' = "stepped"
    /\ UNCHANGED <<config_vars, core_vars, is_connectable_step, t, flow_vars,
                   out_vars, call>>

\* Time step t >= 1: the slice is_connectable_step[i, j, t] and the
\* variables is_connected_step[i, t] (model.py lines 111-125).
SolveStep ==
    /\ pc = "step"
    /\ 1 <= t
    /\ t < T
    /\ \E x \in ConnectableAssignments(is_connected_step, is_core_edge, t) :
        /\ is_connectable(x, is_connected_step, is_core_edge, t)
        /\ \E c \in ConnectedAssignments(x) :
            LET conn == WithStep(is_connected_step, t, c) IN
            /\ is_connected_timestep(c, x)
            /\ connected_graph_so_far(conn, is_core_city)
            /\ is_connected_step' = conn
            /\ is_connectable_step' = x
    /\ pc' = "stepped"
    /\ UNCHANGED <<config_vars, core_vars, t, flow_vars, out_vars, call>>

\* On to the next time step.  The state keeps one slice of
\* is_connectable_step at a time: no constraint relates the slices of two
\* time steps.
NextStep ==
    /\ pc = "stepped"
    /\ t' = t + 1
    /\ is_connectable_step' = [e \in EdgeSet |-> 0]
    /\ pc' = "step"
    /\ UNCHANGED <<config_vars, core_vars, is_connected_step, flow_vars,
                   out_vars, call>>

\* Every time step is assigned: 'connected-graph' (model.py lines 127-132).
SolveConnected ==
    /\ pc = "step"
    /\ t = T
    /\ connected_graph(is_connected_step, is_core_city)
    /\ pc' = "flow"
    /\ UNCHANGED <<config_vars, core_vars, reach_vars, flow_vars, out_vars,
                   call>>

\* ------------------------------------------------------ the solved core
\* The solver has assigned every variable of the core and of its
\* reachability, under all of their constraints.
TopologySolved == pc \notin {"core", "control_center", "step", "stepped"}

CoreEdgeSet == {e \in EdgeSet : is_core_edge[e] = 1}
CoreCitySet == {i \in CITIES : is_core_city[i] = 1}
ControlCenterSet == {i \in CITIES : is_control_center[i] = 1}
\* The cities at the ends of core edges.
CoreEndpoints == UNION {{e[1], e[2]} : e \in CoreEdgeSet}
\* The number of core edges at city i.
CoreEdgesAt(i) == Cardinality({e \in CoreEdgeSet : i \in {e[1], e[2]}})

RECURSIVE ReachableAlongCore(_)
\* The cities that core edges join to a city of S.
ReachableAlongCore(S) ==
    LET N == S \cup {j \in CITIES : \E e \in CoreEdgeSet :
                        j \in {e[1], e[2]} /\ ({e[1], e[2]} \cap S) # {}}
    IN IF N = S THEN S ELSE ReachableAlongCore(N)

\* C1: in every assignment that satisfies the constraints of __init__, the
\* core edges form one connected simple cycle (core_net_is_cycle) or one
\* connected simple path over exactly core_city_count cities, these are
\* exactly the cities with is_core_city = 1, the one control center is one
\* of them, and core edges alone lead from the control center to every core
\* city: there is no second component.
C1_CoreIsOneCycleOrPath ==
    TopologySolved =>
        /\ Cardinality(CoreCitySet) = core_city_count
        /\ CoreEndpoints = CoreCitySet
        /\ Cardinality(ControlCenterSet) = 1
        /\ ControlCenterSet \subseteq CoreCitySet
        /\ ReachableAlongCore(ControlCenterSet) = CoreCitySet
        /\ \A i \in CoreCitySet : CoreEdgesAt(i) \in {1, 2}
        /\ IF core_net_is_cycle
           THEN /\ Cardinality(CoreEdgeSet) = Cardinality(CoreCitySet)
                /\ \A i \in CoreCitySet : CoreEdgesAt(i) = 2
           ELSE Cardinality(CoreEdgeSet) = Cardinality(CoreCitySet) - 1

\* C1's case: a solved path over five cities, where the degree and the
\* vertex/edge constraints alone would also admit a two-city path beside a
\* triangle.
C1_Witness ==
    /\ TopologySolved
    /\ ~core_net_is_cycle
    /\ core_city_count = 5
    /\ Cardinality(CoreEdgeSet) = 4

\* C2: in every assignment that satisfies the constraints, a core city has
\* exactly 1 or 2 incident core edges (2 for every core city of a cycle,
\* and exactly two cities with 1 on a path), and a city that is not a core
\* city has none.
C2_DegreeInvariant ==
    TopologySolved =>
        /\ \A i \in CITIES :
            IF is_core_city[i] = 1 THEN CoreEdgesAt(i) \in {1, 2}
            ELSE CoreEdgesAt(i) = 0
        /\ core_net_is_cycle =>
            \A i \in CoreCitySet : CoreEdgesAt(i) = 2
        /\ ~core_net_is_cycle =>
            Cardinality({i \in CoreCitySet : CoreEdgesAt(i) = 1}) = 2

\* C2's case: a solved path with interior cities, end cities and cities
\* outside the core.
C2_Witness ==
    /\ TopologySolved
    /\ ~core_net_is_cycle
    /\ \E i, j, k \in CITIES :
        /\ is_core_city[i] = 1 /\ CoreEdgesAt(i) = 2
        /\ is_core_city[j] = 1 /\ CoreEdgesAt(j) = 1
        /\ is_core_city[k] = 0

\* The variables 'is-connectable' adds up for edge e at time step t.
ConnectableTerms(e) ==
    <<is_connected_step[<<e[1], t - 1>>], is_connected_step[<<e[2], t - 1>>],
      is_core_edge[e]>>
\* The slice is_connectable_step[i, j, t] is assigned.
SliceAssigned == pc = "stepped" /\ t >= 1

\* C9 as stated: is_connectable_step[i, j, t] = 1 implies that
\* is_connected_step[i, t-1], is_connected_step[j, t-1] and
\* is_core_edge[(i, j)] are all three 1.
C9_ConnectableNeedsAllThree ==
    SliceAssigned =>
        \A e \in EdgeSet :
            is_connectable_step[e] = 1 => ConnectableTerms(e) = <<1, 1, 1>>

\* C9 as amended: is_connectable_step[i, j, t] = 1 implies that at least
\* two of is_connected_step[i, t-1], is_connected_step[j, t-1] and
\* is_core_edge[(i, j)] are 1, so that on an edge that is not a core edge
\* both ends were connected at t-1.
C9_ConnectableNeedsTwoOfThree ==
    SliceAssigned =>
        \A e \in EdgeSet :
            is_connectable_step[e] = 1 =>
                /\ Cardinality({k \in 1 .. 3 : ConnectableTerms(e)[k] = 1}) >= 2
                /\ is_core_edge[e] = 0 =>
                    /\ is_connected_step[<<e[1], t - 1>>] = 1
                    /\ is_connected_step[<<e[2], t - 1>>] = 1

\* C9's case: a connectable variable that is 1 on an edge outside the core.
C9_Witness ==
    /\ SliceAssigned
    /\ \E e \in EdgeSet : is_connectable_step[e] = 1 /\ is_core_edge[e] = 0

NextCore ==
    \/ SolveCore
    \/ SolveControlCenter
    \/ SolveStepZero
    \/ SolveStep
    \/ NextStep
    \/ SolveConnected

SpecCore == InitCore /\ [][NextCore]_vars

\* The next flow variable of EDGES, with its abs_flow (model.py lines
\* 134-140), under the conservation of flow (lines 164-167) at the cities
\* whose flow variables are then all assigned.
SolveFlow ==
    /\ pc = "flow"
    /\ next_edge <= Len(EDGES)
    /\ \E v \in FlowValues, a \in AbsFlowValues :
        LET e == EDGES[next_edge]
            fl == [flow EXCEPT ![e] = v]
            af == [abs_flow EXCEPT ![e] = a]
        IN /\ abs_flow_is_abs(af, fl, e)
           /\ \A i \in CITIES :
                FlowsAssigned(i, next_edge) =>
                    conservation_of_flow(fl, is_control_center, i)
           /\ flow' = fl
           /\ abs_flow' = af
    /\ next_edge' = next_edge + 1
    /\ UNCHANGED <<config_vars, core_vars, reach_vars, is_sub_edge,
                   edge_cost, pc, out_vars, call>>

\* The sub edges (model.py lines 169-191), once every flow is assigned.
SolveSubEdges ==
    /\ pc = "flow"
    /\ next_edge > Len(EDGES)
    /\ \A i \in CITIES : conservation_of_flow(flow, is_control_center, i)
    /\ \E sub \in Binary(EdgeSet) :
        /\ force_is_edge_up_if_flow(sub, is_core_edge, abs_flow)
        /\ force_is_edge_down_if_no_flow(sub, abs_flow)
        /\ disallow_is_both_sub_and_core(sub, is_core_edge)
        /\ is_sub_edge' = sub
    /\ pc' = "edge_cost"
    /\ UNCHANGED <<config_vars, core_vars, reach_vars, flow, abs_flow,
                   next_edge, edge_cost, out_vars, call>>

\* The edge costs (model.py lines 193-202) under 'edge-cost-lb': on the
\* edges of some set the edge cost is M(e), on the others it is the least
\* one, as in an assignment that minimises the objective.
SolveEdgeCost ==
    /\ pc = "edge_cost"
    /\ LET least == [e \in EdgeSet |-> LeastEdgeCost(e)]
           most == [e \in EdgeSet |-> M(e)]
       IN \E high \in SUBSET EdgeSet :
            LET ec == [e \in EdgeSet |->
                        IF e \in high THEN most[e] ELSE least[e]]
            IN /\ edge_cost_lbs(ec)
               /\ edge_cost' = ec
    /\ pc' = "solved"
    /\ UNCHANGED <<config_vars, core_vars, reach_vars, flow, abs_flow,
                   next_edge, is_sub_edge, out_vars, call>>

\* A call of edge_info() on the solved model.
EdgeInfo ==
    /\ pc = "solved"
    /\ "edge_info" \notin reported
    /\ edge_rows' = edge_info
    /\ reported' = reported \cup {"edge_info"}
    /\ UNCHANGED <<config_vars, core_vars, reach_vars, flow_vars, pc,
                   city_rows, call>>

\* A call of city_info() on the solved model.
CityInfo ==
    /\ pc = "solved"
    /\ "city_info" \notin reported
    /\ city_rows' = city_info
    /\ reported' = reported \cup {"city_info"}
    /\ UNCHANGED <<config_vars, core_vars, reach_vars, flow_vars, pc,
                   edge_rows, call>>

\* ------------------------------------------------- the extractor's tables
\* The rows of edge_info() for edge e.
EdgeRowsOf(e) ==
    {k \in 1 .. Len(edge_rows) :
        /\ edge_rows[k].From = cities[e[1] + 1]
        /\ edge_rows[k].To = cities[e[2] + 1]}

\* C3: the rows of city_info() satisfy IngoingFlow - OutgoingFlow = -demand
\* at every city that is not the control center, and
\* IngoingFlow - OutgoingFlow = sum(demand) - demand at the control center.
C3_FlowConservationInRows ==
    "city_info" \in reported =>
        \A k \in 1 .. Len(city_rows) :
            LET row == city_rows[k] IN
            row.IngoingFlow - row.OutgoingFlow =
                IF row.IsControlCenter THEN TotalDemand - row.Demand
                ELSE -row.Demand

\* C3's case: city_info() has returned for a solved model in which a city
\* that is not the control center has demand and the control center takes
\* in flow.
C3_Witness ==
    /\ "city_info" \in reported
    /\ \E k, m \in 1 .. Len(city_rows) :
        /\ ~city_rows[k].IsControlCenter
        /\ city_rows[k].Demand > 0
        /\ city_rows[k].OutgoingFlow > 0
        /\ city_rows[m].IsControlCenter
        /\ city_rows[m].IngoingFlow > 0

\* The edges at city i whose flow is not zero.
FlowingAt(i) == {e \in EdgeSet : i \in {e[1], e[2]} /\ flow[e] # 0}
\* The city a non-zero flow[(a, b)], a < b, is directed to when a positive
\* flow runs from the higher-indexed b to the lower-indexed a.
HeadHigherToLower(e) == IF flow[e] > 0 THEN e[1] ELSE e[2]
\* The same when a positive flow runs from the lower-indexed a to the
\* higher-indexed b.
HeadLowerToHigher(e) == IF flow[e] > 0 THEN e[2] ELSE e[1]
\* The sum of |flow[e]| over the edges of E.
AbsFlowOver(E) == sum([e \in E |-> abs(flow[e])], E)

\* C4 as stated: a positive flow[(a, b)] with a < b runs from the
\* higher-indexed b to the lower-indexed a; IngoingFlow[i] is the sum of
\* |flow[e]| over the edges at i whose flow is directed into i, and
\* OutgoingFlow[i] the sum over the other edges at i with non-zero flow.
C4_PositiveFlowRunsHigherToLower ==
    "city_info" \in reported =>
        \A k \in 1 .. Len(city_rows) :
            LET i == city_rows[k].Index
                into == {e \in FlowingAt(i) : HeadHigherToLower(e) = i}
            IN /\ city_rows[k].IngoingFlow = AbsFlowOver(into)
               /\ city_rows[k].OutgoingFlow = AbsFlowOver(FlowingAt(i) \ into)

\* C4 as amended: the conservation constraint and city_info() use one sign
\* convention, in which a positive flow[(a, b)] with a < b runs from the
\* lower-indexed a to the higher-indexed b; IngoingFlow[i] is the sum of
\* |flow[e]| over the edges at i whose flow is directed into i, OutgoingFlow[i]
\* the sum over the other edges at i with non-zero flow, and what the
\* constraint adds to demand[i] is the flow into i less the flow out of i.
C4_PositiveFlowRunsLowerToHigher ==
    "city_info" \in reported =>
        \A k \in 1 .. Len(city_rows) :
            LET i == city_rows[k].Index
                into == {e \in FlowingAt(i) : HeadLowerToHigher(e) = i}
            IN /\ city_rows[k].IngoingFlow = AbsFlowOver(into)
               /\ city_rows[k].OutgoingFlow = AbsFlowOver(FlowingAt(i) \ into)
               /\ TotalDemand * is_control_center[i] =
                    demand[i] + AbsFlowOver(into)
                              - AbsFlowOver(FlowingAt(i) \ into)

\* C4's case: city_info() has returned for a city that is the lower end of
\* an edge with flow and the higher end of another, one flow positive and
\* one negative.
C4_Witness ==
    /\ "city_info" \in reported
    /\ \E e, f \in EdgeSet :
        /\ e[2] = f[1]
        /\ flow[e] > 0
        /\ flow[f] < 0

\* C5: edge_info() returns exactly one record for each edge e with
\* is_core_edge[e] > 1e-9 or |flow[e]| > 1e-9 and none for any other edge;
\* the record's Type is CORE iff e is a solved core edge and SUB otherwise.
C5_EdgeInfoRows ==
    "edge_info" \in reported =>
        /\ \A e \in EdgeSet :
            /\ Cardinality(EdgeRowsOf(e)) =
                IF is_core_edge[e] = 1 \/ flow[e] > Tol \/ flow[e] < -Tol
                THEN 1 ELSE 0
            /\ \A k \in EdgeRowsOf(e) :
                /\ edge_rows[k].Type = IF is_core_edge[e] = 1 THEN "CORE"
                                       ELSE "SUB"
                /\ edge_rows[k].Flow = flow[e]
        /\ \A k \in 1 .. Len(edge_rows) : \E e \in EdgeSet : k \in EdgeRowsOf(e)

\* C5's case: edge_info() has returned a CORE record of an edge that carries
\* flow above the tolerance and a SUB record, and has left out an edge.
C5_Witness ==
    /\ "edge_info" \in reported
    /\ \E e, f, g \in EdgeSet :
        /\ is_core_edge[e] = 1 /\ abs(flow[e]) > Tol
        /\ is_core_edge[f] = 0 /\ abs(flow[f]) > Tol
        /\ EdgeRowsOf(g) = {}

\* C7: city_info() applies the tolerance too: an edge whose flow has
\* 0 < |flow| <= 1e-9 adds nothing to any IngoingFlow or OutgoingFlow, just
\* as edge_info() leaves it out when it is not a core edge.
C7_CityInfoAppliesTolerance ==
    "city_info" \in reported =>
        \A k \in 1 .. Len(city_rows) :
            LET i == city_rows[k].Index
                above == {e \in FlowingAt(i) : abs(flow[e]) > Tol}
                into == {e \in above : HeadLowerToHigher(e) = i}
            IN /\ city_rows[k].IngoingFlow = AbsFlowOver(into)
               /\ city_rows[k].OutgoingFlow = AbsFlowOver(above \ into)

\* C10: is_sub_edge[e] = 1 implies abs_flow[e] > 0, for every Config, with
\* demands of any sign and zero demands among them.
C10_SubEdgeCarriesFlow ==
    pc = "solved" =>
        \A e \in EdgeSet : is_sub_edge[e] = 1 => abs_flow[e] > 0

Next ==
    \/ SolveCore
    \/ SolveControlCenter
    \/ SolveStepZero
    \/ SolveStep
    \/ NextStep
    \/ SolveConnected
    \/ SolveFlow
    \/ SolveSubEdges
    \/ SolveEdgeCost
    \/ EdgeInfo
    \/ CityInfo

Spec == Init /\ [][Next]_vars

\* ------------------------------------------------------- the edge costs
\* The distances of a Config of SpecCost: zero, and ten times a perfect
\* square.
DistanceValues == {0, 10 * MaxRoot * MaxRoot}

\* The demands of a Config of SpecCost, in ticks: none negative, so that
\* abs_flow has values within its bounds.
CostDemandValues == {0, MaxCostDemand}

\* Every Config of two or three cities with demands of CostDemandValues and
\* distances of DistanceValues.
InitCost ==
    /\ cities \in {SubSeq(CityNames, 1, n) : n \in {2, 3}}
    /\ demand \in [CITIES -> CostDemandValues]
    /\ core_city_count \in 1 .. C
    /\ core_net_is_cycle \in BOOLEAN
    /\ Unsolved
    /\ distances \in [EdgeSet -> DistanceValues]
    /\ call = NoCall

NextCost ==
    \/ SolveCore
    \/ SolveControlCenter
    \/ SolveStepZero
    \/ SolveStep
    \/ NextStep
    \/ SolveConnected
    \/ SolveFlow
    \/ SolveSubEdges
    \/ SolveEdgeCost
    \/ EdgeInfo

SpecCost == InitCost /\ [][NextCost]_vars

\* C11: for every core edge e, 'edge-cost-lb' holds with every
\* edge_cost[e] >= 0, zero included, for every is_sub_edge[e] in {0, 1} and
\* every abs_flow[e] within [0, sum(demand)]; M(e) is the maximum of the
\* right-hand side; so the least edge_cost[e] is zero and the edge adds only
\* 10 * D[e] to the objective that is minimised.
C11_CoreEdgeCostIsFree ==
    pc = "solved" =>
        \A e \in EdgeSet :
            is_core_edge[e] = 1 =>
                /\ \A c \in EdgeCostValues(e), b \in {0, 1},
                      a \in AbsFlowValues :
                        edge_cost_lb(c, is_core_edge[e], b, a, e)
                /\ M(e) \in RhsValues(e)
                /\ \A r \in RhsValues(e) : cost_ge(M(e), r)
                /\ LET least == LeastEdgeCost(e)
                   IN /\ least = ZeroCost
                      /\ objective_term(least, is_core_edge[e], e) =
                            <<10 * distances[e], 0>>

\* C11's case: edge_info() has returned for a solved model with a core edge
\* of positive distance that carries flow at edge cost zero, its row's Cost
\* being 10 * D[e], beside an edge that is not a core edge and has a cost.
C11_Witness ==
    /\ "edge_info" \in reported
    /\ \E e, f \in EdgeSet :
        /\ is_core_edge[e] = 1
        /\ distances[e] > 0
        /\ abs_flow[e] > 0
        /\ edge_cost[e] = ZeroCost
        /\ \E k \in EdgeRowsOf(e) :
            edge_rows[k].Cost = <<10 * distances[e], 0>>
        /\ is_core_edge[f] = 0
        /\ is_sub_edge[f] = 1
        /\ edge_cost[f] # ZeroCost

\* -------------------------------------------- the core city counts
\* The core city counts C12 names as admitting no assignment.
NoCore == NC = 1 \/ (NC = 2 /\ core_net_is_cycle)

\* An assignment along the line of the cities 0, 1, ..., NC - 1: they are
\* the core cities, each joined to the next by a core edge (and the last to
\* the first in a cycle); city 0 is the control center, city i is connected
\* at time step i over the edge from city i - 1, and every other city sends
\* its demand to city 0 over the edge between them, a sub edge unless it is
\* a core edge, at the cost 'edge-cost-lb' asks.
LineCities == 0 .. NC - 1
LineEdges ==
    {<<i, i + 1>> : i \in 0 .. NC - 2}
        \cup (IF core_net_is_cycle THEN {<<0, NC - 1>>} ELSE {})
LineCoreCity == Indicator(LineCities, CITIES)
LineCoreEdge == Indicator(LineEdges, EdgeSet)
LineControlCenter == Indicator({0}, CITIES)
LineConnected ==
    [k \in CITIES \X (0 .. T - 1) |->
        IF k[1] \in LineCities /\ k[2] = k[1] THEN 1 ELSE 0]
LineConnectable(tt) == Indicator({<<tt - 1, tt>>}, EdgeSet)
LineFlow == [e \in EdgeSet |-> IF e[1] = 0 THEN -demand[e[2]] ELSE 0]
LineAbsFlow == [e \in EdgeSet |-> abs(LineFlow[e])]
LineSubEdge ==
    [e \in EdgeSet |->
        IF LineCoreEdge[e] = 0 /\ LineAbsFlow[e] > 0 THEN 1 ELSE 0]
LineEdgeCost ==
    [e \in EdgeSet |-> edge_cost_rhs(LineSubEdge[e], LineAbsFlow[e], e)]

\* The assignment along the line satisfies every constraint of __init__.
LineSatisfies ==
    /\ control_center_unique(LineControlCenter)
    /\ control_center_directly_connected(LineCoreCity, LineControlCenter)
    /\ core_city_ub(LineCoreCity, LineCoreEdge)
    /\ vertex_edge_relation(LineCoreCity, LineCoreEdge)
    /\ disallow_core_tree(LineCoreCity, LineCoreEdge)
    /\ exactly_nc_core_cities(LineCoreCity)
    /\ control_center_is_connected(LineConnected, LineControlCenter)
    /\ \A tt \in 1 .. T - 1 :
        /\ is_connectable(LineConnectable(tt), LineConnected, LineCoreEdge,
                          tt)
        /\ is_connected_timestep([i \in CITIES |-> LineConnected[<<i, tt>>]],
                                 LineConnectable(tt))
    /\ connected_graph(LineConnected, LineCoreCity)
    /\ \A e \in EdgeSet :
        /\ LineFlow[e] \in FlowValues
        /\ LineAbsFlow[e] \in AbsFlowValues
        /\ abs_flow_is_abs(LineAbsFlow, LineFlow, e)
        /\ cost_ge(LineEdgeCost[e], ZeroCost)
        /\ edge_cost_lb(LineEdgeCost[e], LineCoreEdge[e], LineSubEdge[e],
                        LineAbsFlow[e], e)
    /\ \A i \in CITIES : conservation_of_flow(LineFlow, LineControlCenter, i)
    /\ force_is_edge_up_if_flow(LineSubEdge, LineCoreEdge, LineAbsFlow)
    /\ force_is_edge_down_if_no_flow(LineSubEdge, LineAbsFlow)
    /\ disallow_is_both_sub_and_core(LineSubEdge, LineCoreEdge)

\* The solver has returned the assignment along the line.
LineSolved ==
    /\ pc = "solved"
    /\ is_core_city = LineCoreCity
    /\ is_core_edge = LineCoreEdge
    /\ is_control_center = LineControlCenter
    /\ is_connected_step = LineConnected
    /\ flow = LineFlow
    /\ abs_flow = LineAbsFlow
    /\ is_sub_edge = LineSubEdge
    /\ edge_cost = LineEdgeCost

\* C12: with non-negative demands the constraints of __init__ have no
\* satisfying assignment when core_city_count = 1, or when
\* core_city_count = 2 and the core is a cycle: the solver never assigns
\* the core.  For every other core_city_count from 2 (3 for a cycle) up to
\* the number of cities a satisfying assignment exists: the one along the
\* line.
C12_CoreCityCounts ==
    /\ NoCore => pc = "core" /\ ~LineSatisfies
    /\ (pc = "core" /\ ~NoCore /\ 2 <= NC /\ NC <= C) => LineSatisfies

\* C12's case: a cycle of three core cities, the least count a cycle
\* admits, among cities with demand, solved by the assignment along the
\* line.
C12_Witness ==
    /\ core_net_is_cycle
    /\ NC = 3
    /\ TotalDemand > 0
    /\ LineSolved

\* ------------------------------------------ the module-level functions
\* The solved values handed to non_zero: on both sides of the tolerance,
\* exactly on it, zero, and a binary variable that is 1.
XValues ==
    {XReal(-(Tol + 1)), XReal(-Tol), XReal(0), XReal(Tol), XReal(Tol + 1),
     XBinary(1)}

\* The mappings handed to non_zero, as the lists of their items: up to
\* MaxItems distinct keys in any order, each with a value of XValues.
ItemLists ==
    UNION {{items \in [1 .. n -> (0 .. MaxItems - 1) \X XValues] :
                \A p, q \in 1 .. n : p # q => items[p][1] # items[q][1]} :
           n \in 0 .. MaxItems}

\* A call of normalize(i, j) or of non_zero(items), about to run.
InitCalls ==
    /\ cities = <<>>
    /\ demand = <<>>
    /\ core_city_count = 0
    /\ core_net_is_cycle = FALSE
    /\ Unsolved
    /\ distances = <<>>
    /\ call \in
        {[fn |-> "normalize", args |-> <<i, j>>, returned |-> FALSE,
          result |-> <<>>] : i, j \in 0 .. MaxIndex}
        \cup {[fn |-> "non_zero", args |-> <<items>>, returned |-> FALSE,
               result |-> <<>>] : items \in ItemLists}

\* normalize(i, j) returns, or raises.
Normalize ==
    /\ call.fn = "normalize"
    /\ ~call.returned
    /\ call' = [call EXCEPT !.returned = TRUE,
                            !.result = normalize(call.args[1], call.args[2])]
    /\ UNCHANGED <<config_vars, core_vars, reach_vars, flow_vars, pc,
                   out_vars>>

\* normalize is called on the two components of the pair it returned.
NormalizeAgain ==
    /\ call.fn = "normalize"
    /\ call.returned
    /\ call.result # AssertionError
    /\ call' = [call EXCEPT !.args = call.result, !.returned = FALSE,
                            !.result = <<>>]
    /\ UNCHANGED <<config_vars, core_vars, reach_vars, flow_vars, pc,
                   out_vars>>

\* list(non_zero(items)) returns.
NonZero ==
    /\ call.fn = "non_zero"
    /\ ~call.returned
    /\ call' = [call EXCEPT !.returned = TRUE,
                            !.result = non_zero(call.args[1])]
    /\ UNCHANGED <<config_vars, core_vars, reach_vars, flow_vars, pc,
                   out_vars>>

NextCalls == Normalize \/ NormalizeAgain \/ NonZero

SpecCalls == InitCalls /\ [][NextCalls]_vars

\* The value of an item is outside [-1e-9, 1e-9].
OutsideTolerance(x) == x[1] # 0 \/ x[2] > Tol \/ x[2] < -Tol

\* C6: non_zero(items) yields exactly the keys whose value v has
\* |v| > 1e-9, strictly: exactly 1e-9 and -1e-9 count as zero, 1.1e-9 does
\* not; the keys come in the mapping's order, none twice.
C6_NonZeroIsStrict ==
    (call.fn = "non_zero" /\ call.returned) =>
        LET items == call.args[1]
            r == call.result
        IN /\ \A k \in 1 .. Len(items) :
                (\E p \in 1 .. Len(r) : r[p] = items[k][1])
                    <=> OutsideTolerance(items[k][2])
           /\ \A p \in 1 .. Len(r) : \E k \in 1 .. Len(items) : r[p] = items[k][1]
           /\ \A p, q \in 1 .. Len(r) : p # q => r[p] # r[q]
           /\ \A k, m \in 1 .. Len(items) :
                (k < m /\ OutsideTolerance(items[k][2])
                       /\ OutsideTolerance(items[m][2])) =>
                    \E p, q \in 1 .. Len(r) :
                        p < q /\ r[p] = items[k][1] /\ r[q] = items[m][1]

\* C6's case: non_zero has returned for a mapping with a value of exactly
\* 1e-9, one of exactly -1e-9 and one of 1.1e-9, and yielded one key.
C6_Witness ==
    /\ call.fn = "non_zero"
    /\ call.returned
    /\ \E k, m, n \in 1 .. Len(call.args[1]) :
        /\ call.args[1][k][2] = XReal(Tol)
        /\ call.args[1][m][2] = XReal(-Tol)
        /\ call.args[1][n][2] = XReal(Tol + 1)
        /\ call.result = <<call.args[1][n][1]>>

\* C8: for i # j, normalize(i, j) = normalize(j, i), the result has its
\* smaller index first, and normalize of the result's two components is the
\* result again; for i = j normalize fails its assertion.
C8_NormalizeIsCanonical ==
    (call.fn = "normalize" /\ call.returned) =>
        LET i == call.args[1]
            j == call.args[2]
            r == call.result
        IN IF i = j THEN r = AssertionError
           ELSE /\ r # AssertionError
                /\ r \in {<<i, j>>, <<j, i>>}
                /\ r[1] < r[2]
                /\ r = normalize(j, i)
                /\ r = normalize(r[1], r[2])

\* C8's case: normalize has returned for a pair it had to swap.
C8_Witness ==
    /\ call.fn = "normalize"
    /\ call.returned
    /\ call.args[1] > call.args[2]
    /\ call.result = <<call.args[2], call.args[1]>>
=============================================================================
